---- MODULE Spec2Model ----
(***************************************************************************)
(* A model of the crucible protocol crate (frame codec, message catalog,   *)
(* handshake state machine).                                               *)
(*                                                                         *)
(* Sizes.  A buffer of the program can hold more than 2^31 bytes, which    *)
(* TLC's integers cannot count.  A size is therefore a pair <<hi, lo>>     *)
(* standing for hi * 2^20 + lo with 0 <= lo < 2^20 ("Big").                *)
(*                                                                         *)
(* Bytes.  The contents of a BytesMut / Bytes are a byte string, kept      *)
(* run-length encoded: a sequence of runs [b |-> byte, n |-> Big size],    *)
(* every n > 0, neighbouring runs of different bytes.  Each byte string    *)
(* has exactly one such representation, so = is equality of byte strings.  *)
(*                                                                         *)
(* Integers.  A u32 is two and a u64 four 16-bit limbs, least significant  *)
(* first.                                                                  *)
(***************************************************************************)
EXTENDS Integers, Sequences, FiniteSets, TLC

VARIABLES
    buf,        \* the BytesMut the encoder writes to and the decoder reads
    enc,        \* the message encoded into buf, NoMsg when there is none
    last,       \* the last call on buf: its arguments and what it returned
    wire,       \* bytes the encoder has written that have not arrived yet
    inflight,   \* messages encoded on the connection and not yet decoded
    allFit,     \* no frame encoded on the connection exceeded MAX_FRM_LEN
    state,      \* HandshakeProcess.state
    role,       \* HandshakeProcess.role
    uuid,       \* HandshakeProcess.uuid
    sent,       \* messages handed to the transport's send_message, in order
    call,       \* the last call on the HandshakeProcess and its result
    checked     \* the last call of CreateRegion::mismatch and its result

vars == <<buf, enc, last, wire, inflight, allFit, state, role, uuid, sent,
          call, checked>>

---------------------------------------------------------------------------
(* Sizes *)

Mi == 1024 * 1024

Big(hi, lo) == <<hi + (lo \div Mi), lo % Mi>>

BigOf(n) == Big(0, n)

BigAdd(a, b) == Big(a[1] + b[1], a[2] + b[2])

BigLt(a, b) == a[1] < b[1] \/ (a[1] = b[1] /\ a[2] < b[2])

BigLe(a, b) == a = b \/ BigLt(a, b)

\* a - b, for b <= a
BigSub(a, b) ==
    IF a[2] >= b[2] THEN <<a[1] - b[1], a[2] - b[2]>>
    ELSE <<a[1] - b[1] - 1, a[2] + Mi - b[2]>>

\* `n as u32`: the low 32 bits
AsU32(n) == <<n[1] % 4096, n[2]>>

---------------------------------------------------------------------------
(* Byte strings *)

Run(b, n) == [b |-> b, n |-> n]

Fill(b, n) == IF n = <<0, 0>> THEN <<>> ELSE <<Run(b, n)>>

\* the number of bytes of s (halving s keeps the evaluation shallow)
RECURSIVE BLen(_)
BLen(s) ==
    IF s = <<>> THEN <<0, 0>>
    ELSE IF Len(s) = 1 THEN s[1].n
    ELSE BigAdd(BLen(SubSeq(s, 1, Len(s) \div 2)),
                BLen(SubSeq(s, (Len(s) \div 2) + 1, Len(s))))

\* s has at least n bytes
HasBytes(s, n) == BigLe(n, BLen(s))

Cat(s, t) ==
    IF s = <<>> THEN t
    ELSE IF t = <<>> THEN s
    ELSE IF s[Len(s)].b = t[1].b
         THEN SubSeq(s, 1, Len(s) - 1)
                \o <<Run(t[1].b, BigAdd(s[Len(s)].n, t[1].n))>> \o Tail(t)
         ELSE s \o t

RECURSIVE FromBytes(_)
FromBytes(bs) ==
    IF bs = <<>> THEN <<>>
    ELSE Cat(<<Run(bs[1], <<0, 1>>)>>, FromBytes(Tail(bs)))

\* Where a search for the byte at offset n may stop: a run holds at least
\* one byte, so that byte lies in one of the first n + 1 runs.
Reach(s, n) == IF n[1] = 0 /\ n[2] < Len(s) THEN n[2] + 1 ELSE Len(s)

\* the index of the run that holds the byte at offset n, for n < BLen(s)
RunAt(s, n) ==
    CHOOSE i \in 1..Reach(s, n) :
        /\ BigLe(BLen(SubSeq(s, 1, i - 1)), n)
        /\ BigLt(n, BLen(SubSeq(s, 1, i)))

\* the first n bytes of s, the last of them in run i
TakeTo(s, n, i) ==
    SubSeq(s, 1, i - 1) \o Fill(s[i].b, BigSub(n, BLen(SubSeq(s, 1, i - 1))))

\* the first n bytes of s (all of s when it has no more than n)
Take(s, n) ==
    IF ~BigLt(n, BLen(s)) THEN s
    ELSE IF n = <<0, 0>> THEN <<>>
    ELSE TakeTo(s, n, RunAt(s, n))

\* s from offset n on, which is in run i
DropTo(s, n, i) ==
    <<Run(s[i].b, BigSub(BLen(SubSeq(s, 1, i)), n))>> \o SubSeq(s, i + 1, Len(s))

\* s without its first n bytes (empty when s has no more than n)
Drop(s, n) ==
    IF n = <<0, 0>> THEN s
    ELSE IF ~BigLt(n, BLen(s)) THEN <<>>
    ELSE DropTo(s, n, RunAt(s, n))

\* the first k bytes of s as a sequence of numbers, for a small k <= BLen(s)
Bytes(s, k) == [j \in 1..k |-> s[RunAt(s, <<0, j - 1>>)].b]

---------------------------------------------------------------------------
(* Fixed-width integers *)

\* the little-endian bytes of an integer given by its 16-bit limbs
RECURSIVE LimbBytes(_)
LimbBytes(v) ==
    IF v = <<>> THEN <<>>
    ELSE <<v[1] % 256, v[1] \div 256>> \o LimbBytes(Tail(v))

\* the integer (as limbs) that little-endian bytes bs stand for
RECURSIVE BytesLimbs(_)
BytesLimbs(bs) ==
    IF bs = <<>> THEN <<>>
    ELSE <<bs[1] + 256 * bs[2]>> \o BytesLimbs(Tail(Tail(bs)))

U32(n) == <<n % 65536, n \div 65536>>

U64(n) == <<n % 65536, n \div 65536, 0, 0>>

U64Max == <<65535, 65535, 65535, 65535>>

\* a size as a u64 (usize -> u64)
BigToU64(n) ==
    << n[2] % 65536,
       (n[2] \div 65536) + 16 * (n[1] % 4096),
       (n[1] \div 4096) % 65536,
       n[1] \div (4096 * 65536) >>

\* a u32 or u64 as a size (-> usize).  Every value from 2^48 on is given as
\* 2^48: all of them are larger than any buffer, and are only compared with
\* buffer lengths.
LimbsToBig(v) ==
    IF Len(v) = 4 /\ v[4] # 0 THEN <<4096 * 65536, 0>>
    ELSE <<(v[2] \div 16) + (IF Len(v) = 4 THEN 4096 * v[3] ELSE 0),
           v[1] + 65536 * (v[2] % 16)>>

---------------------------------------------------------------------------
(* bincode (fixed-width little-endian integers, u64 lengths, u32 variant   *)
(* indices, one-byte Option tags and bools), driven by the shape of the    *)
(* serde type.  A shape is a tuple whose first element names it.           *)
(*   values: u32/u64 limbs; bool BOOLEAN; bytes, uuid, string a byte       *)
(*   string; vec a sequence; option <<>> or <<v>>; tuple a sequence;       *)
(*   enum [variant |-> name, fields |-> sequence]                          *)

TU8 == <<"u8">>
TU32 == <<"u32">>
TU64 == <<"u64">>
TBool == <<"bool">>
TBytes == <<"bytes">>
TUuid == <<"uuid">>
TString == <<"string">>
TVec(T) == <<"vec", T>>
TOption(T) == <<"option", T>>
TTuple(Ts) == <<"tuple", Ts>>
TEnum(vs) == <<"enum", vs>>
Variant(name, Ts) == [name |-> name, fields |-> Ts]

VariantIndex(vs, name) == CHOOSE i \in 1..Len(vs) : vs[i].name = name

\* bincode::serialize_into
RECURSIVE Ser(_, _), SerFields(_, _), SerSeq(_, _)
Ser(T, v) ==
    CASE T[1] = "u8" -> FromBytes(<<v>>)
      [] T[1] \in {"u32", "u64"} -> FromBytes(LimbBytes(v))
      [] T[1] = "bool" -> FromBytes(<<IF v THEN 1 ELSE 0>>)
      [] T[1] \in {"bytes", "uuid", "string"} ->
            Cat(FromBytes(LimbBytes(BigToU64(BLen(v)))), v)
      [] T[1] = "vec" ->
            Cat(FromBytes(LimbBytes(U64(Len(v)))), SerSeq(T[2], v))
      [] T[1] = "option" ->
            IF v = <<>> THEN FromBytes(<<0>>)
            ELSE Cat(FromBytes(<<1>>), Ser(T[2], v[1]))
      [] T[1] = "tuple" -> SerFields(T[2], v)
      [] T[1] = "enum" ->
            Cat(FromBytes(LimbBytes(U32(VariantIndex(T[2], v.variant) - 1))),
                SerFields(T[2][VariantIndex(T[2], v.variant)].fields,
                          v.fields))
SerFields(Ts, vs) ==
    IF Ts = <<>> THEN <<>>
    ELSE Cat(Ser(Ts[1], vs[1]), SerFields(Tail(Ts), Tail(vs)))
SerSeq(T, vs) ==
    IF vs = <<>> THEN <<>>
    ELSE Cat(Ser(T, vs[1]), SerSeq(T, Tail(vs)))

\* bincode::serialized_size: adds up the sizes, writes nothing
RECURSIVE SerializedSize(_, _), SizeFields(_, _), SizeSeq(_, _)
SerializedSize(T, v) ==
    CASE T[1] \in {"u8", "bool"} -> <<0, 1>>
      [] T[1] = "u32" -> <<0, 4>>
      [] T[1] = "u64" -> <<0, 8>>
      [] T[1] \in {"bytes", "uuid", "string"} -> BigAdd(<<0, 8>>, BLen(v))
      [] T[1] = "vec" -> BigAdd(<<0, 8>>, SizeSeq(T[2], v))
      [] T[1] = "option" ->
            IF v = <<>> THEN <<0, 1>>
            ELSE BigAdd(<<0, 1>>, SerializedSize(T[2], v[1]))
      [] T[1] = "tuple" -> SizeFields(T[2], v)
      [] T[1] = "enum" ->
            BigAdd(<<0, 4>>,
                   SizeFields(T[2][VariantIndex(T[2], v.variant)].fields,
                              v.fields))
SizeFields(Ts, vs) ==
    IF Ts = <<>> THEN <<0, 0>>
    ELSE BigAdd(SerializedSize(Ts[1], vs[1]), SizeFields(Tail(Ts), Tail(vs)))
SizeSeq(T, vs) ==
    IF vs = <<>> THEN <<0, 0>>
    ELSE BigAdd(SerializedSize(T, vs[1]), SizeSeq(T, Tail(vs)))

\* What a read from the reader gives: ok, the value, and what is left in the
\* buffer.  A failed read leaves what the reader had not taken yet.
Got(v, r) == [ok |-> TRUE, val |-> v, rest |-> r]
Failed(r) == [ok |-> FALSE, val |-> <<>>, rest |-> r]

\* Read::read_exact of k bytes from src.reader(): at the end of the buffer it
\* fails, having taken every byte there was
ReadExact(r, k) ==
    IF ~HasBytes(r, BigOf(k)) THEN Failed(<<>>)
    ELSE Got(Bytes(r, k), Drop(r, BigOf(k)))

\* the n bytes after a length n
TakeBuf(r, n) ==
    IF ~HasBytes(r, n) THEN Failed(<<>>) ELSE Got(Take(r, n), Drop(r, n))

\* the bytes after their length l, which has been read
AfterLen(l) ==
    IF l.ok THEN TakeBuf(l.rest, LimbsToBig(BytesLimbs(l.val))) ELSE l

\* a length-prefixed run of bytes (deserialize_bytes, deserialize_byte_buf,
\* deserialize_string)
ReadByteBuf(r) == AfterLen(ReadExact(r, 8))

IsAscii(s) == \A i \in 1..Len(s) : s[i].b < 128

\* what the visitors make of the bytes x that have been read
AsU8(x) == IF x.ok THEN Got(x.val[1], x.rest) ELSE x

AsInt(x) == IF x.ok THEN Got(BytesLimbs(x.val), x.rest) ELSE x

AsBool(x) ==
    IF ~x.ok THEN x
    ELSE IF x.val[1] \in {0, 1} THEN Got(x.val[1] = 1, x.rest)
    ELSE Failed(x.rest)

\* Uuid::from_slice: 16 bytes
AsUuid(x) == IF x.ok /\ BLen(x.val) # <<0, 16>> THEN Failed(x.rest) ELSE x

AsString(x) == IF x.ok /\ ~IsAscii(x.val) THEN Failed(x.rest) ELSE x

AsSome(y) == IF y.ok THEN Got(<<y.val>>, y.rest) ELSE y

AsVariant(name, f) ==
    IF f.ok THEN Got([variant |-> name, fields |-> f.val], f.rest) ELSE f

\* bincode::deserialize_from
RECURSIVE De(_, _), DeOption(_, _), DeVariant(_, _), DeFields(_, _, _),
          DeNext(_, _, _), DeVec(_, _), DeSeq(_, _, _, _), DeMore(_, _, _, _)
De(T, r) ==
    CASE T[1] = "u8" -> AsU8(ReadExact(r, 1))
      [] T[1] = "u32" -> AsInt(ReadExact(r, 4))
      [] T[1] = "u64" -> AsInt(ReadExact(r, 8))
      [] T[1] = "bool" -> AsBool(ReadExact(r, 1))
      [] T[1] = "bytes" -> ReadByteBuf(r)
      [] T[1] = "uuid" -> AsUuid(ReadByteBuf(r))
      [] T[1] = "string" -> AsString(ReadByteBuf(r))
      [] T[1] = "vec" -> DeVec(T[2], AsInt(ReadExact(r, 8)))
      [] T[1] = "option" -> DeOption(T[2], ReadExact(r, 1))
      [] T[1] = "tuple" -> DeFields(T[2], r, <<>>)
      [] T[1] = "enum" -> DeVariant(T[2], AsInt(ReadExact(r, 4)))
\* an Option, its tag byte x read
DeOption(T, x) ==
    IF ~x.ok THEN x
    ELSE IF x.val[1] = 0 THEN Got(<<>>, x.rest)
    ELSE IF x.val[1] = 1 THEN AsSome(De(T, x.rest))
    ELSE Failed(x.rest)
\* an enum, its variant index idx read
DeVariant(vs, idx) ==
    IF ~idx.ok THEN idx
    ELSE IF idx.val[2] # 0 \/ idx.val[1] >= Len(vs) THEN Failed(idx.rest)
    ELSE AsVariant(vs[idx.val[1] + 1].name,
                   DeFields(vs[idx.val[1] + 1].fields, idx.rest, <<>>))
\* the fields Ts, after the fields acc
DeFields(Ts, r, acc) ==
    IF Ts = <<>> THEN Got(acc, r) ELSE DeNext(Ts, De(Ts[1], r), acc)
DeNext(Ts, x, acc) ==
    IF x.ok THEN DeFields(Tail(Ts), x.rest, Append(acc, x.val)) ELSE x
\* a sequence, its length l read
DeVec(T, l) ==
    IF l.ok THEN DeSeq(T, l.rest, LimbsToBig(l.val), <<>>) ELSE l
\* n more elements, after the elements acc
DeSeq(T, r, n, acc) ==
    IF n = <<0, 0>> THEN Got(acc, r) ELSE DeMore(T, De(T, r), n, acc)
DeMore(T, x, n, acc) ==
    IF x.ok THEN DeSeq(T, x.rest, BigSub(n, <<0, 1>>), Append(acc, x.val))
    ELSE x

---------------------------------------------------------------------------
(* The message catalog *)

\* crucible_common types, which the catalog embeds
TBlock == TU64
TCrucibleError == TTuple(<<TU32, TString>>)
TRegionDefinition == TTuple(<<TU64, TU64, TU32, TBool>>)

TResult(T, E) == TEnum(<<Variant("Ok", T), Variant("Err", <<E>>)>>)

TWrite ==
    TTuple(<<TU64, TBlock, TBytes, TOption(TVec(TU8)), TOption(TVec(TU8))>>)

TReadRequest == TTuple(<<TU64, TBlock, TU64>>)

TReadResponse ==
    TTuple(<<TU64, TBlock, TU64, TBytes,
             TOption(TVec(TU8)), TOption(TVec(TU8))>>)

TMessage ==
    TEnum(<<
        Variant("HereIAm", <<TU32, TUuid>>),
        Variant("YesItsMe", <<TU32>>),
        Variant("PromoteToActive", <<TUuid>>),
        Variant("YouAreNowActive", <<TUuid>>),
        Variant("YouAreNoLongerActive", <<TUuid>>),
        Variant("UuidMismatch", <<TUuid>>),
        Variant("Ruok", <<>>),
        Variant("Imok", <<>>),
        Variant("RegionInfoPlease", <<>>),
        Variant("RegionInfo", <<TRegionDefinition>>),
        Variant("ExtentVersionsPlease", <<>>),
        Variant("LastFlush", <<TU64>>),
        Variant("LastFlushAck", <<TU64>>),
        Variant("ExtentVersions", <<TVec(TU64), TVec(TU64), TVec(TBool)>>),
        Variant("Write", <<TUuid, TU64, TVec(TU64), TVec(TWrite)>>),
        Variant("WriteAck", <<TUuid, TU64, TResult(<<>>, TCrucibleError)>>),
        Variant("Flush", <<TUuid, TU64, TVec(TU64), TU64, TU64>>),
        Variant("FlushAck", <<TUuid, TU64, TResult(<<>>, TCrucibleError)>>),
        Variant("ReadRequest", <<TUuid, TU64, TVec(TU64), TVec(TReadRequest)>>),
        Variant("ReadResponse",
                <<TUuid, TU64,
                  TResult(<<TVec(TReadResponse)>>, TCrucibleError)>>),
        Variant("Unknown", <<TU32, TBytes>>) >>)

Msg(name, fields) == [variant |-> name, fields |-> fields]

NoMsg == Msg("", <<>>)

---------------------------------------------------------------------------
(* The frame codec *)

MAX_FRM_LEN == 100 * 1024 * 1024

\* dst.put_u32_le(len as u32)
PutU32Le(dst, len) ==
    Cat(dst, FromBytes(LimbBytes(SubSeq(BigToU64(AsU32(len)), 1, 2))))

\* CrucibleEncoder::encode: dst afterwards (it always returns Ok)
Encode(m, dst) ==
    Cat(PutU32Le(dst, BigAdd(SerializedSize(TMessage, m), <<0, 4>>)),
        Ser(TMessage, m))

\* what decode returns (Ok(None), Err(why), Ok(Some(m))), and src afterwards
Pending(src) == [res |-> "Pending", msg |-> NoMsg, why |-> "", src |-> src]
Error(why, src) == [res |-> "Error", msg |-> NoMsg, why |-> why, src |-> src]
Message(m, src) == [res |-> "Message", msg |-> m, why |-> "", src |-> src]

\* u32::from_le_bytes(src[0..4]) as usize
FrameLen(src) == LimbsToBig(BytesLimbs(Bytes(src, 4)))

\* Ok(Some(message?)), message being what bincode::deserialize_from gave
Deserialized(message) ==
    IF message.ok THEN Message(message.val, message.rest)
    ELSE Error("deserialize", message.rest)

\* decode without src.advance(4): the length prefix is read as payload
DecodeNoAdvance(src) ==
    IF ~HasBytes(src, <<0, 4>>) THEN Pending(src)
    ELSE IF BigLt(BigOf(MAX_FRM_LEN), FrameLen(src))
         THEN Error("frame is more than maximum", src)
    ELSE IF ~HasBytes(src, FrameLen(src)) THEN Pending(src)
    ELSE Deserialized(De(TMessage, src))

\* decode taking the length prefix not to count itself: it waits for
\* len - 4 bytes only
DecodeExclusiveLength(src) ==
    IF ~HasBytes(src, <<0, 4>>) THEN Pending(src)
    ELSE IF BigLt(BigOf(MAX_FRM_LEN), FrameLen(src))
         THEN Error("frame is more than maximum", src)
    ELSE IF ~BigLe(FrameLen(src), BigAdd(BLen(src), <<0, 4>>))
         THEN Pending(src)
    ELSE Deserialized(De(TMessage, Drop(src, <<0, 4>>)))

\* decode checking the maximum only once the whole frame is buffered
DecodeLateLimit(src) ==
    IF ~HasBytes(src, <<0, 4>>) THEN Pending(src)
    ELSE IF ~HasBytes(src, FrameLen(src)) THEN Pending(src)
    ELSE IF BigLt(BigOf(MAX_FRM_LEN), FrameLen(src))
         THEN Error("frame is more than maximum", src)
    ELSE Deserialized(De(TMessage, Drop(src, <<0, 4>>)))

\* decode without the wait for the whole frame: it deserializes as soon as
\* the length prefix is buffered
DecodeEager(src) ==
    IF ~HasBytes(src, <<0, 4>>) THEN Pending(src)
    ELSE IF BigLt(BigOf(MAX_FRM_LEN), FrameLen(src))
         THEN Error("frame is more than maximum", src)
    ELSE Deserialized(De(TMessage, Drop(src, <<0, 4>>)))

\* CrucibleDecoder::decode: what it returns, and src afterwards
Decode(src) ==
    IF ~HasBytes(src, <<0, 4>>) THEN Pending(src)
    ELSE IF BigLt(BigOf(MAX_FRM_LEN), FrameLen(src))
         THEN Error("frame is more than maximum", src)
    ELSE IF ~HasBytes(src, FrameLen(src)) THEN Pending(src)
    ELSE Deserialized(De(TMessage, Drop(src, <<0, 4>>)))

---------------------------------------------------------------------------
(* The messages the model draws from: every variant, with the payloads the *)
(* crate's tests use, empty and largest values, and payloads at the frame  *)
(* length limit and at the limit of the 32-bit length prefix.              *)

UuidNil == Fill(0, <<0, 16>>)

UuidA == FromBytes(<<161, 162, 163, 164, 165, 166, 167, 168,
                     169, 170, 171, 172, 173, 174, 175, 176>>)

ErrIo == <<U32(1), FromBytes(<<105, 111>>)>>

WriteEmpty == <<U64(0), U64(0), <<>>, <<>>, <<>>>>

WriteSealed ==
    <<U64(1), U64(8), FromBytes(<<9, 9, 0>>), <<(<<1, 2>>)>>, <<(<<>>)>>>>

\* the frame of Unknown(0, data) is 20 bytes longer than data
UnknownOfFrameLen(len) ==
    Msg("Unknown", <<U32(0), Fill(0, BigSub(len, <<0, 20>>))>>)

SmallMessages ==
    << Msg("HereIAm", <<U32(1), UuidA>>),
       Msg("HereIAm", <<U32(0), UuidNil>>),
       Msg("YesItsMe", <<U32(1)>>),
       Msg("YesItsMe", <<U32(20000)>>),
       Msg("YesItsMe", <<(<<65535, 65535>>)>>),
       Msg("PromoteToActive", <<UuidA>>),
       Msg("YouAreNowActive", <<UuidA>>),
       Msg("YouAreNoLongerActive", <<UuidNil>>),
       Msg("UuidMismatch", <<UuidA>>),
       Msg("Ruok", <<>>),
       Msg("Imok", <<>>),
       Msg("RegionInfoPlease", <<>>),
       Msg("RegionInfo", <<(<<U64(512), U64(100), U32(10), FALSE>>)>>),
       Msg("ExtentVersionsPlease", <<>>),
       Msg("LastFlush", <<U64(7)>>),
       Msg("LastFlushAck", <<U64Max>>),
       Msg("ExtentVersions", <<(<<>>), <<>>, <<>>>>),
       Msg("ExtentVersions",
           << <<U64(1), U64(2), U64(3), U64(4), U64Max, U64(1), U64(0)>>,
              <<U64(1), U64(2), U64(3), U64(4), U64Max, U64(1), U64(0)>>,
              <<TRUE, TRUE, FALSE, TRUE, TRUE, FALSE, TRUE>> >>),
       Msg("ExtentVersions", <<(<<U64(1)>>), <<>>, <<TRUE, FALSE>>>>),
       Msg("Write", <<UuidA, U64(1), <<>>, <<>>>>),
       Msg("Write", <<UuidA, U64(2), <<U64(1)>>, <<WriteEmpty, WriteSealed>>>>),
       Msg("WriteAck", <<UuidA, U64(1), Msg("Ok", <<>>)>>),
       Msg("WriteAck", <<UuidA, U64(2), Msg("Err", <<ErrIo>>)>>),
       Msg("Flush", <<UuidA, U64(3), <<U64(1), U64(2)>>, U64(1), U64(1)>>),
       Msg("FlushAck", <<UuidA, U64(3), Msg("Ok", <<>>)>>),
       Msg("FlushAck", <<UuidNil, U64(3), Msg("Err", <<ErrIo>>)>>),
       Msg("ReadRequest",
           <<UuidA, U64(4), <<>>, <<(<<U64(0), U64(0), U64(1)>>)>>>>),
       Msg("ReadResponse",
           <<UuidA, U64(4),
             Msg("Ok", << <<(<<U64(0), U64(0), U64(1),
                             Fill(1, <<0, 4>>), <<>>, <<>>>>)>> >>)>>),
       Msg("ReadResponse", <<UuidA, U64(4), Msg("Err", <<ErrIo>>)>>),
       Msg("Unknown", <<U32(99), <<>>>>),
       Msg("Unknown", <<U32(21), FromBytes(<<1, 2, 3>>)>>) >>

\* frames of exactly MAX_FRM_LEN bytes, one more, 2^32 - 1, 2^32 and 2^32 + 8
LargeMessages ==
    << UnknownOfFrameLen(BigOf(MAX_FRM_LEN)),
       UnknownOfFrameLen(BigAdd(BigOf(MAX_FRM_LEN), <<0, 1>>)),
       UnknownOfFrameLen(<<4095, Mi - 1>>),
       UnknownOfFrameLen(<<4096, 0>>),
       UnknownOfFrameLen(<<4096, 8>>) >>

MessageList == SmallMessages \o LargeMessages

\* equality of messages: of the variants first, then of their fields
MsgEq(a, b) == a.variant = b.variant /\ a.fields = b.fields

---------------------------------------------------------------------------
(* Bytes a peer may put on the connection without this crate's encoder: a  *)
(* 4-byte length, a payload and what follows the frame, in every           *)
(* combination.                                                            *)

DeclaredLengths ==
    { U32(0), U32(3), U32(4), U32(8), U32(12), U32(16),
      <<0, 1600>>,          \* MAX_FRM_LEN
      <<1, 1600>>,          \* MAX_FRM_LEN + 1
      <<65535, 65535>> }

RawPayloads ==
    { <<>>,
      FromBytes(<<1>>),
      Ser(TMessage, Msg("Ruok", <<>>)),
      Ser(TMessage, Msg("YesItsMe", <<U32(1)>>)),
      FromBytes(LimbBytes(U32(21))),
      Cat(FromBytes(LimbBytes(U32(21))), FromBytes(<<1, 2, 3, 4>>)),
      FromBytes(LimbBytes(<<65535, 65535>>)) }

RawTrailers == { <<>>, FromBytes(<<7>>), Encode(Msg("Imok", <<>>), <<>>) }

RawInputs ==
    { Cat(FromBytes(LimbBytes(l)), Cat(p, t)) :
        l \in DeclaredLengths, p \in RawPayloads, t \in RawTrailers }

---------------------------------------------------------------------------
(* The agent's region records and CreateRegion::mismatch.                  *)

RegionIds == {"abc", "xyz"}

VolumeIds == {"def", "ghi"}

PortNumbers == {1701, 1702}

RegionStates == {"Requested", "Created", "Failed"}

BlockSizes == {512, 4096}

BlockCounts == {100, 101}

\* struct CreateRegion
CreateRegions ==
    [id : RegionIds, volume_id : VolumeIds, block_size : BlockSizes,
     block_count : BlockCounts]

\* struct Region
Regions ==
    [id : RegionIds, volume_id : VolumeIds, port_number : PortNumbers,
     state : RegionStates, block_size : BlockSizes,
     block_count : BlockCounts]

None == [some |-> FALSE, val |-> <<>>]

Some(v) == [some |-> TRUE, val |-> v]

\* the decimal digits of n, as {} prints a u32
RECURSIVE Decimal(_)
Decimal(n) == IF n < 10 THEN <<n>> ELSE Append(Decimal(n \div 10), n % 10)

\* format!("{what} {} instead of requested {}", have, requested)
Format(what, have, requested) ==
    <<what, have, " instead of requested ", requested>>

\* mismatch looking at the block size before the volume id
mismatchBlockSizeFirst(self, r) ==
    IF self.block_size # r.block_size
    THEN Some(Format("block size ", Decimal(self.block_size),
                     Decimal(r.block_size)))
    ELSE IF self.volume_id # r.volume_id
    THEN Some(Format("volume ID ", self.volume_id, r.volume_id))
    ELSE IF self.block_count # r.block_count
    THEN Some(Format("block count ", Decimal(self.block_count),
                     Decimal(r.block_count)))
    ELSE None

\* CreateRegion::mismatch
mismatch(self, r) ==
    IF self.volume_id # r.volume_id
    THEN Some(Format("volume ID ", self.volume_id, r.volume_id))
    ELSE IF self.block_size # r.block_size
    THEN Some(Format("block size ", Decimal(self.block_size),
                     Decimal(r.block_size)))
    ELSE IF self.block_count # r.block_count
    THEN Some(Format("block count ", Decimal(self.block_count),
                     Decimal(r.block_count)))
    ELSE None

\* a call of mismatch: its two records and what it returned
Checked(op, self, r, ret) == [op |-> op, self |-> self, r |-> r, ret |-> ret]

\* no call of mismatch yet
NotChecked == Checked("", <<>>, <<>>, None)

---------------------------------------------------------------------------
(* One buffer, as the crate's tests use the codec: a message is encoded    *)
(* into a new buffer, or a peer's bytes are received into it; the buffer   *)
(* may be truncated; decode is called on it, any number of times.          *)

MaxCut == 160

\* a call: the operation, its message argument, the buffer before it, what
\* it returned
Call(op, arg, pre, res, msg, why) ==
    [op |-> op, arg |-> arg, pre |-> pre, res |-> res, msg |-> msg,
     why |-> why]

\* a call on the HandshakeProcess: its argument and result, and the state and
\* the transport's record as they were before it
Called(op, arg, ret, before, handed) ==
    [op |-> op, arg |-> arg, ret |-> ret, state |-> before, sent |-> handed]

HandshakeIdle ==
    /\ state = "Start"
    /\ role = "Upstairs"
    /\ uuid = UuidNil
    /\ sent = <<>>
    /\ call = Called("new", NoMsg, "Ok", "Start", <<>>)

Init ==
    /\ buf = <<>>
    /\ enc = NoMsg
    /\ last = Call("new", NoMsg, <<>>, "", NoMsg, "")
    /\ wire = <<>>
    /\ inflight = <<>>
    /\ allFit = TRUE
    /\ HandshakeIdle
    /\ checked = NotChecked

\* enc.encode(m, &mut buf) on the new buffer
EncodeMessage(m) ==
    /\ last.op = "new"
    /\ buf' = Encode(m, buf)
    /\ enc' = m
    /\ last' = Call("encode", m, buf, "Ok", NoMsg, "")
    /\ UNCHANGED <<wire, inflight, allFit, state, role, uuid, sent, call,
                   checked>>

\* a peer's bytes arrive in the new buffer
Receive(raw) ==
    /\ last.op = "new"
    /\ buf' = Cat(buf, raw)
    /\ last' = Call("receive", NoMsg, buf, "", NoMsg, "")
    /\ UNCHANGED <<enc, wire, inflight, allFit, state, role, uuid, sent, call,
                   checked>>

\* buffer.truncate(buffer.len() - k)
Truncate(k) ==
    /\ last.op \in {"encode", "receive"}
    /\ BigLe(BigOf(k), BLen(buf))
    /\ buf' = Take(buf, BigSub(BLen(buf), BigOf(k)))
    /\ last' = Call("truncate", NoMsg, buf, "", NoMsg, "")
    /\ UNCHANGED <<enc, wire, inflight, allFit, state, role, uuid, sent, call,
                   checked>>

\* dec.decode(&mut buf)
Decoded(d) ==
    /\ buf' = d.src
    /\ last' = Call("decode", NoMsg, buf, d.res, d.msg, d.why)

DecodeBuffer ==
    /\ last.op # "new"
    /\ Decoded(Decode(buf))
    /\ UNCHANGED <<enc, wire, inflight, allFit, state, role, uuid, sent, call,
                   checked>>

Next ==
    \/ \E i \in 1..Len(MessageList) : EncodeMessage(MessageList[i])
    \/ \E raw \in RawInputs : Receive(raw)
    \/ \E k \in 1..MaxCut : Truncate(k)
    \/ DecodeBuffer

Spec == Init /\ [][Next]_vars

---------------------------------------------------------------------------
(* One connection: the sender encodes messages onto the wire, the bytes    *)
(* arrive in the receive buffer in chunks, the receiver calls decode.  A   *)
(* decode error ends the connection.                                       *)

MaxInflight == 2

MaxChunk == 2

\* the messages sent on the connection: MessageList at these indices
StreamMessages == {3, 10, 31, 32, 33, 35}

\* enc.encode(m, &mut wire)
Send(m) ==
    /\ last.res # "Error"
    /\ Len(inflight) < MaxInflight
    /\ wire' = Encode(m, wire)
    /\ inflight' = Append(inflight, m)
    /\ allFit' = (allFit /\ BigLe(BLen(Encode(m, <<>>)), BigOf(MAX_FRM_LEN)))
    /\ last' = Call("encode", m, wire, "Ok", NoMsg, "")
    /\ UNCHANGED <<buf, enc, state, role, uuid, sent, call, checked>>

\* the next n bytes arrive
Arrive(n) ==
    /\ last.res # "Error"
    /\ wire # <<>>
    /\ wire[1].n[1] = 0
    /\ BigLe(BigOf(n), BLen(wire))
    /\ buf' = Cat(buf, Take(wire, BigOf(n)))
    /\ wire' = Drop(wire, BigOf(n))
    /\ last' = Call("arrive", NoMsg, buf, "", NoMsg, "")
    /\ UNCHANGED <<enc, inflight, allFit, state, role, uuid, sent, call,
                   checked>>

\* a run of a mebibyte or more arrives as one chunk
ArriveRun ==
    /\ last.res # "Error"
    /\ wire # <<>>
    /\ wire[1].n[1] > 0
    /\ buf' = Cat(buf, <<wire[1]>>)
    /\ wire' = Tail(wire)
    /\ last' = Call("arrive", NoMsg, buf, "", NoMsg, "")
    /\ UNCHANGED <<enc, inflight, allFit, state, role, uuid, sent, call,
                   checked>>

\* the message the receiver is to get next
Expected == IF inflight = <<>> THEN NoMsg ELSE Head(inflight)

Polled(d) ==
    /\ buf' = d.src
    /\ inflight' = IF d.res = "Message" /\ inflight # <<>>
                   THEN Tail(inflight) ELSE inflight
    /\ last' = Call("decode", Expected, buf, d.res, d.msg, d.why)

\* dec.decode(&mut buf)
Poll ==
    /\ last.res # "Error"
    /\ Polled(Decode(buf))
    /\ UNCHANGED <<enc, wire, allFit, state, role, uuid, sent, call, checked>>

\* the connection is closed after an error, and a new one made
Close ==
    /\ last.res = "Error"
    /\ buf' = <<>>
    /\ wire' = <<>>
    /\ inflight' = <<>>
    /\ allFit' = TRUE
    /\ last' = Call("new", NoMsg, <<>>, "", NoMsg, "")
    /\ UNCHANGED <<enc, state, role, uuid, sent, call, checked>>

NextStream ==
    \/ \E i \in StreamMessages : Send(MessageList[i])
    \/ \E n \in 1..MaxChunk : Arrive(n)
    \/ ArriveRun
    \/ Poll
    \/ Close

SpecStream == Init /\ [][NextStream]_vars

---------------------------------------------------------------------------
(* The handshake: one HandshakeProcess and the transport it borrows.       *)

MaxSent == 2

HandshakeRoles == {"Upstairs", "Downstairs"}

HandshakeStates ==
    {"Start", "WaitForActive", "RegionInfo", "ExtentVersion", "Complete"}

Uuids == {UuidNil, UuidA}

\* the messages handed to process_message: MessageList at these indices
HandshakeMessages == 1..Len(SmallMessages)

Moved(new_state) == [ok |-> TRUE, state |-> new_state, err |-> ""]

Bail(error_message) == [ok |-> FALSE, state |-> "", err |-> error_message]

\* a transition function that lets a Write through once the peer is known
StateProcessMessageWrite(s, message) ==
    IF s = "Start" /\ message.variant = "YesItsMe" THEN Moved("WaitForActive")
    ELSE IF message.variant = "YesItsMe" THEN Bail("Got version already!")
    ELSE IF s = "WaitForActive" /\ message.variant = "Write" THEN Moved(s)
    ELSE Bail("Unexpected command")

\* a transition function that takes version 1 only
StateProcessMessageVersion1(s, message) ==
    IF s = "Start" /\ message.variant = "YesItsMe" /\ message.fields[1] = U32(1)
    THEN Moved("WaitForActive")
    ELSE IF message.variant = "YesItsMe" THEN Bail("Got version already!")
    ELSE Bail("Unexpected command")

\* a transition function that takes YesItsMe again
StateProcessMessageAgain(s, message) ==
    IF message.variant = "YesItsMe" THEN Moved("WaitForActive")
    ELSE Bail("Unexpected command")

\* a transition function that starts over on HereIAm
StateProcessMessageRestart(s, message) ==
    IF s = "Start" /\ message.variant = "YesItsMe" THEN Moved("WaitForActive")
    ELSE IF message.variant = "YesItsMe" THEN Bail("Got version already!")
    ELSE IF message.variant = "HereIAm" THEN Moved("Start")
    ELSE Bail("Unexpected command")

\* a transition function with the next step of the negotiation in it
StateProcessMessageActive(s, message) ==
    IF s = "Start" /\ message.variant = "YesItsMe" THEN Moved("WaitForActive")
    ELSE IF message.variant = "YesItsMe" THEN Bail("Got version already!")
    ELSE IF s = "WaitForActive" /\ message.variant = "YouAreNowActive"
         THEN Moved("RegionInfo")
    ELSE Bail("Unexpected command")

\* HandshakeState::process_message
StateProcessMessage(s, message) ==
    IF s = "Start" /\ message.variant = "YesItsMe" THEN Moved("WaitForActive")
    ELSE IF message.variant = "YesItsMe" THEN Bail("Got version already!")
    ELSE Bail("Unexpected command")

\* HandshakeProcess::new
New(r, interface, u) ==
    /\ state' = "Start"
    /\ role' = r
    /\ uuid' = u
    /\ sent' = interface
    /\ call' = Called("new", NoMsg, "Ok", "Start", interface)
    /\ UNCHANGED <<buf, enc, last, wire, inflight, allFit, checked>>

\* start sending HereIAm whatever the role
StartAnyRole(initialized, delivered) ==
    /\ Len(sent) < MaxSent
    /\ IF ~initialized
       THEN /\ sent' = sent
            /\ call' = Called("start", NoMsg, "Err(initialize)", state, sent)
       ELSE /\ sent' = Append(sent, Msg("HereIAm", <<U32(1), uuid>>))
            /\ call' = Called("start", NoMsg,
                              IF delivered THEN "Ok" ELSE "Err(send_message)",
                              state, sent)
    /\ UNCHANGED <<buf, enc, last, wire, inflight, allFit, state, role, uuid,
                   checked>>

\* start going on after initialize failed, and reporting the failure after
\* the message is sent
StartSendFirst(initialized, delivered) ==
    /\ Len(sent) < MaxSent
    /\ IF role = "Upstairs"
       THEN /\ sent' = Append(sent, Msg("HereIAm", <<U32(1), uuid>>))
            /\ call' = Called("start", NoMsg,
                              IF ~initialized THEN "Err(initialize)"
                              ELSE IF delivered THEN "Ok"
                              ELSE "Err(send_message)",
                              state, sent)
       ELSE /\ sent' = sent
            /\ call' = Called("start", NoMsg,
                              IF initialized THEN "Ok" ELSE "Err(initialize)",
                              state, sent)
    /\ UNCHANGED <<buf, enc, last, wire, inflight, allFit, state, role, uuid,
                   checked>>

\* HandshakeProcess::start, on a transport whose initialize succeeds or not,
\* and whose send_message succeeds or not
Start(initialized, delivered) ==
    /\ Len(sent) < MaxSent
    /\ IF ~initialized
       THEN /\ sent' = sent
            /\ call' = Called("start", NoMsg, "Err(initialize)", state, sent)
       ELSE IF role = "Upstairs"
       THEN /\ sent' = Append(sent, Msg("HereIAm", <<U32(1), uuid>>))
            /\ call' = Called("start", NoMsg,
                              IF delivered THEN "Ok" ELSE "Err(send_message)",
                              state, sent)
       ELSE /\ sent' = sent
            /\ call' = Called("start", NoMsg, "Ok", state, sent)
    /\ UNCHANGED <<buf, enc, last, wire, inflight, allFit, state, role, uuid,
                   checked>>

\* the result of the transition taken, with the state forgotten on an error
ProcessedLatched(message, r) ==
    /\ state' = IF r.ok THEN r.state ELSE "Start"
    /\ call' = Called("process_message", message,
                      IF r.ok THEN "Ok" ELSE r.err, state, sent)

\* the match on self.state.process_message(message): Ok(new_state) is
\* assigned, Err(error_message) is returned
Processed(message, r) ==
    /\ state' = IF r.ok THEN r.state ELSE state
    /\ call' = Called("process_message", message,
                      IF r.ok THEN "Ok" ELSE r.err, state, sent)

\* process_message without the arm for Imok: every message goes to the state
ProcessMessageNoImokArm(message) ==
    /\ Processed(message, StateProcessMessage(state, message))
    /\ UNCHANGED <<buf, enc, last, wire, inflight, allFit, role, uuid, sent,
                   checked>>

\* process_message answering Ruok with Imok through the transport
ProcessMessageAnswering(message) ==
    /\ IF message.variant = "Imok"
       THEN /\ state' = state
            /\ sent' = sent
            /\ call' = Called("process_message", message, "Ok", state, sent)
       ELSE IF message.variant = "Ruok"
       THEN /\ state' = state
            /\ sent' = Append(sent, Msg("Imok", <<>>))
            /\ call' = Called("process_message", message, "Ok", state, sent)
       ELSE /\ sent' = sent
            /\ Processed(message, StateProcessMessage(state, message))
    /\ UNCHANGED <<buf, enc, last, wire, inflight, allFit, role, uuid,
                   checked>>

\* HandshakeProcess::process_message
ProcessMessage(message) ==
    /\ IF message.variant = "Imok"
       THEN /\ state' = state
            /\ call' = Called("process_message", message, "Ok", state, sent)
       ELSE Processed(message, StateProcessMessage(state, message))
    /\ UNCHANGED <<buf, enc, last, wire, inflight, allFit, role, uuid, sent,
                   checked>>

NextHandshake ==
    \/ \E r \in HandshakeRoles, u \in Uuids : New(r, <<>>, u)
    \/ \E initialized \in BOOLEAN, delivered \in BOOLEAN :
           Start(initialized, delivered)
    \/ \E i \in HandshakeMessages : ProcessMessage(MessageList[i])

SpecHandshake == Init /\ [][NextHandshake]_vars

---------------------------------------------------------------------------
(* The agent compares a request to create a region with the region it has. *)

\* create.mismatch(&existing)
CallMismatch(create, existing) ==
    /\ checked' = Checked("mismatch", create, existing,
                          mismatch(create, existing))
    /\ UNCHANGED <<buf, enc, last, wire, inflight, allFit, state, role, uuid,
                   sent, call>>

NextMismatch ==
    \E create \in CreateRegions, existing \in Regions :
        CallMismatch(create, existing)

SpecMismatch == Init /\ [][NextMismatch]_vars

---------------------------------------------------------------------------
(* Properties of the codec on one buffer (Spec) *)

\* the frame of m: what encode writes into an empty buffer
FrameOf(m) == Encode(m, <<>>)

\* the frame of m is no longer than the maximum frame length
FrameFits(m) == BigLe(BLen(FrameOf(m)), BigOf(MAX_FRM_LEN))

\* p is the first bytes of f, and not all of them
IsProperPrefix(p, f) == BigLt(BLen(p), BLen(f)) /\ Take(f, BLen(p)) = p

\* decode has just been called on a buffer that held exactly the frame of
\* the encoded message
DecodedWholeFrame ==
    last.op = "decode" /\ enc.variant # "" /\ last.pre = FrameOf(enc)

\* decode has just been called on a buffer that held less than the frame of
\* the encoded message
DecodedTruncatedFrame ==
    /\ last.op = "decode"
    /\ enc.variant # ""
    /\ IsProperPrefix(last.pre, FrameOf(enc))

\* C1 as stated: for every message m, decoding the buffer that m was encoded
\* into returns m and leaves the buffer empty.
RoundTripEveryMessage ==
    DecodedWholeFrame =>
        last.res = "Message" /\ MsgEq(last.msg, enc) /\ buf = <<>>

\* C1, within the limit: for every message m whose frame is at most MAX_FRM_LEN bytes
\* long, decoding the buffer that m was encoded into returns Ok(Some(m)) and
\* leaves the buffer empty.
RoundTripWithinLimit ==
    (DecodedWholeFrame /\ FrameFits(enc)) =>
        last.res = "Message" /\ MsgEq(last.msg, enc) /\ buf = <<>>

\* the 7-extent ExtentVersions of the crate's test rt_ev_7 came back
RoundTripWitness ==
    /\ DecodedWholeFrame
    /\ MsgEq(enc, MessageList[18])
    /\ last.res = "Message"
    /\ MsgEq(last.msg, enc)
    /\ buf = <<>>

\* C2 as stated: for every message m, decode of a proper prefix of m's frame
\* returns Ok(None) and consumes nothing.
TruncatedPendingEveryMessage ==
    DecodedTruncatedFrame => last.res = "Pending" /\ buf = last.pre

\* C2, within the limit: for every message m whose frame is at most MAX_FRM_LEN bytes
\* long, decode of a proper prefix of m's frame (the frame without its last
\* byte among them) returns Ok(None) and consumes nothing.
TruncatedPendingWithinLimit ==
    (DecodedTruncatedFrame /\ FrameFits(enc)) =>
        last.res = "Pending" /\ buf = last.pre

\* the crate's test: HereIAm(0, uuid) without the last byte of its frame
TruncatedWitness ==
    /\ DecodedTruncatedFrame
    /\ MsgEq(enc, MessageList[2])
    /\ BLen(last.pre) = BigSub(BLen(FrameOf(enc)), <<0, 1>>)
    /\ last.res = "Pending"

\* C3: decode of a buffer of at least 4 bytes whose length prefix is more
\* than MAX_FRM_LEN returns the frame-length error and consumes nothing,
\* however many bytes are buffered; a prefix of exactly MAX_FRM_LEN is not
\* rejected as too long.
OversizeRejected ==
    (last.op = "decode" /\ HasBytes(last.pre, <<0, 4>>)) =>
        /\ BigLt(BigOf(MAX_FRM_LEN), FrameLen(last.pre)) =>
              /\ last.res = "Error"
              /\ last.why = "frame is more than maximum"
              /\ buf = last.pre
        /\ FrameLen(last.pre) = BigOf(MAX_FRM_LEN) =>
              last.why # "frame is more than maximum"

\* a frame that declares MAX_FRM_LEN + 1 bytes and is wholly buffered was
\* rejected
OversizeWitness ==
    /\ last.op = "decode"
    /\ BLen(last.pre) = BigAdd(BigOf(MAX_FRM_LEN), <<0, 1>>)
    /\ FrameLen(last.pre) = BigAdd(BigOf(MAX_FRM_LEN), <<0, 1>>)
    /\ last.res = "Error"
    /\ buf = last.pre

\* C4 as stated, for the bytes of a peer that declare a length of 4 or more:
\* a decode that returns a message has consumed exactly the declared length,
\* whatever the payload; the bytes after the frame are left.
ExactFrameConsumption ==
    (last.op = "decode" /\ last.res = "Message" /\ enc.variant = ""
        /\ BigLe(<<0, 4>>, FrameLen(last.pre))) =>
        buf = Drop(last.pre, FrameLen(last.pre))

\* the variant index of the frame at the head of p
TagOf(p) == BytesLimbs(Bytes(Drop(p, <<0, 4>>), 4))

\* p starts with a complete frame whose variant index is none of the catalog
UnknownTagFrame(p) ==
    /\ HasBytes(p, <<0, 8>>)
    /\ BigLe(<<0, 8>>, FrameLen(p))
    /\ BigLe(FrameLen(p), BigOf(MAX_FRM_LEN))
    /\ HasBytes(p, FrameLen(p))
    /\ (TagOf(p)[2] # 0 \/ TagOf(p)[1] >= Len(TMessage[2]))

\* C6 as stated: a complete frame with an unrecognised tag decodes to
\* Unknown(tag, bytes), never to an error.
UnknownTagDecodes ==
    (last.op = "decode" /\ UnknownTagFrame(last.pre)) =>
        /\ last.res = "Message"
        /\ last.msg.variant = "Unknown"
        /\ last.msg.fields[1] = TagOf(last.pre)

---------------------------------------------------------------------------
(* Properties of the codec on one connection (SpecStream) *)

\* what C5 says of one decode call: it returns no error; a message it returns
\* is the oldest one not yet delivered; and once every byte has arrived a
\* Pending means that every message has been delivered
InOrder ==
    last.op = "decode" =>
        /\ last.res # "Error"
        /\ last.res = "Message" =>
               (last.arg.variant # "" /\ MsgEq(last.msg, last.arg))
        /\ (last.res = "Pending" /\ wire = <<>>) =>
               (inflight = <<>> /\ buf = <<>>)

\* C5 as stated: for every sequence of messages and every split of the byte
\* stream into chunks, the decode calls yield the messages in order, none
\* lost, duplicated or reordered.
StreamOrderEveryMessage == InOrder

\* C5, for frames within the limit: if every frame encoded on the connection
\* is at most MAX_FRM_LEN bytes long, then for every split of the byte stream
\* into chunks the decode calls yield the messages in order, none lost,
\* duplicated or reordered.
StreamOrderWithinLimit == allFit => InOrder

\* a message came out in order while part of the next frame was buffered and
\* the rest of it still on the wire
StreamOrderWitness ==
    /\ allFit
    /\ last.op = "decode"
    /\ last.res = "Message"
    /\ MsgEq(last.msg, last.arg)
    /\ inflight # <<>>
    /\ buf # <<>>
    /\ wire # <<>>

\* C7 as stated: encode appends to the destination, after what it held, a
\* 4-byte little-endian integer whose value is the payload size plus 4 and
\* then the payload, for every payload size.
LengthPrefixExact ==
    last.op = "encode" =>
        /\ Take(wire, BLen(last.pre)) = last.pre
        /\ BLen(wire) = BigAdd(BLen(last.pre),
                               BigAdd(SerializedSize(TMessage, last.arg),
                                      <<0, 4>>))
        /\ FrameLen(Drop(wire, BLen(last.pre))) =
               BigAdd(SerializedSize(TMessage, last.arg), <<0, 4>>)
        /\ Drop(wire, BigAdd(BLen(last.pre), <<0, 4>>)) =
               Ser(TMessage, last.arg)

---------------------------------------------------------------------------
(* Properties of the handshake (SpecHandshake) *)

DataOperations ==
    {"Write", "Flush", "ReadRequest", "WriteAck", "FlushAck", "ReadResponse"}

\* C8: no data-operation message is accepted by process_message unless the
\* state is Complete, whatever calls came before; the transition function
\* accepts none in any of the other four states.
NoDataBeforeComplete ==
    /\ (call.op = "process_message" /\ call.arg.variant \in DataOperations
            /\ call.ret = "Ok") => call.state = "Complete"
    /\ \A s \in HandshakeStates \ {"Complete"}, i \in HandshakeMessages :
           MessageList[i].variant \in DataOperations =>
               ~StateProcessMessage(s, MessageList[i]).ok

\* a data operation was refused after YesItsMe had been accepted
NoDataBeforeCompleteWitness ==
    /\ call.op = "process_message"
    /\ call.arg.variant \in DataOperations
    /\ call.state = "WaitForActive"
    /\ call.ret # "Ok"
    /\ state = "WaitForActive"

\* C9: process_message(YesItsMe(v)) in state Start returns Ok and the state
\* afterwards is WaitForActive, for every version v and for both roles.
YesItsMeFromStart ==
    (call.op = "process_message" /\ call.arg.variant = "YesItsMe"
        /\ call.state = "Start") =>
        (call.ret = "Ok" /\ state = "WaitForActive")

\* a Downstairs machine in Start took YesItsMe of the largest version
YesItsMeFromStartWitness ==
    /\ call.op = "process_message"
    /\ call.arg.variant = "YesItsMe"
    /\ call.arg.fields[1] = <<65535, 65535>>
    /\ call.state = "Start"
    /\ role = "Downstairs"
    /\ state = "WaitForActive"

\* C10: process_message(m) in state s returns Ok if and only if m is Imok or
\* s is Start and m is YesItsMe; YesItsMe in any other state is an error; the
\* transition function succeeds on the pair (Start, YesItsMe) only.
TransitionTable ==
    /\ call.op = "process_message" =>
           /\ call.ret = "Ok" <=>
                  \/ call.arg.variant = "Imok"
                  \/ call.state = "Start" /\ call.arg.variant = "YesItsMe"
           /\ (call.arg.variant = "YesItsMe" /\ call.state # "Start") =>
                  call.ret = "Got version already!"
    /\ \A s \in HandshakeStates, i \in HandshakeMessages :
           StateProcessMessage(s, MessageList[i]).ok <=>
               (s = "Start" /\ MessageList[i].variant = "YesItsMe")

\* a second YesItsMe was refused and the state stayed WaitForActive
TransitionTableWitness ==
    /\ call.op = "process_message"
    /\ call.arg.variant = "YesItsMe"
    /\ call.state = "WaitForActive"
    /\ call.ret = "Got version already!"
    /\ state = "WaitForActive"

\* C11 as stated: process_message(Ruok) gives no handshake-sequencing error,
\* whatever the state, and never changes the state.
RuokExempt ==
    (call.op = "process_message" /\ call.arg.variant = "Ruok") =>
        (call.ret = "Ok" /\ state = call.state)

\* C12: process_message(Imok) returns Ok and leaves the state, the role, the
\* uuid and the messages handed to the transport as they were, in every
\* state and for both roles.
ImokNoOp ==
    [][(call'.op = "process_message" /\ call'.arg.variant = "Imok") =>
           /\ call'.ret = "Ok"
           /\ state' = state
           /\ role' = role
           /\ uuid' = uuid
           /\ sent' = sent]_vars

\* Imok was taken after YesItsMe, by a machine that had sent its HereIAm
ImokNoOpWitness ==
    /\ call.op = "process_message"
    /\ call.arg.variant = "Imok"
    /\ call.ret = "Ok"
    /\ call.state = "WaitForActive"
    /\ state = "WaitForActive"
    /\ sent # <<>>
    /\ sent = call.sent

\* C13: a start() whose transport initializes hands exactly one message to
\* the transport when the role is Upstairs, HereIAm(1, uuid) with the uuid of
\* the construction, and nothing when the role is Downstairs, where it
\* returns Ok; the state, the role and the uuid stay as they were.
StartByRole ==
    [][\A delivered \in BOOLEAN :
           Start(TRUE, delivered) =>
               /\ state' = state
               /\ role' = role
               /\ uuid' = uuid
               /\ role = "Upstairs" =>
                      sent' = Append(sent, Msg("HereIAm", <<U32(1), uuid>>))
               /\ role = "Downstairs" =>
                      (sent' = sent /\ call'.ret = "Ok")]_vars

\* an Upstairs machine made with a uuid other than nil has sent its one
\* HereIAm and is still in Start
StartByRoleWitness ==
    /\ call.op = "start"
    /\ call.ret = "Ok"
    /\ role = "Upstairs"
    /\ uuid = UuidA
    /\ call.sent = <<>>
    /\ sent = <<Msg("HereIAm", <<U32(1), UuidA>>)>>
    /\ state = "Start"

\* C14: a start() whose transport fails to initialize returns that error,
\* hands no message to the transport and leaves the state as it was; a
\* start() whose transport initializes and then fails to send returns the
\* send error.
StartFailure ==
    [][\A initialized \in BOOLEAN, delivered \in BOOLEAN :
           Start(initialized, delivered) =>
               /\ ~initialized =>
                      /\ call'.ret = "Err(initialize)"
                      /\ sent' = sent
                      /\ state' = state
               /\ (initialized /\ ~delivered /\ role = "Upstairs") =>
                      call'.ret = "Err(send_message)"]_vars

\* an Upstairs machine whose transport did not initialize has sent nothing
StartFailureWitness ==
    /\ call.op = "start"
    /\ call.ret = "Err(initialize)"
    /\ role = "Upstairs"
    /\ sent = <<>>
    /\ state = "Start"

\* the order Start < WaitForActive < RegionInfo < ExtentVersion < Complete
StateRank(s) ==
    CASE s = "Start" -> 0
      [] s = "WaitForActive" -> 1
      [] s = "RegionInfo" -> 2
      [] s = "ExtentVersion" -> 3
      [] s = "Complete" -> 4

\* C15: no call of start or process_message moves the machine to an earlier
\* state; the transition function moves no state, Complete among them, to an
\* earlier one, whatever the message.
MonotoneProgress ==
    [][/\ call'.op \in {"start", "process_message"} =>
              StateRank(state') >= StateRank(state)
       /\ \A s \in HandshakeStates, i \in HandshakeMessages :
              StateProcessMessage(s, MessageList[i]).ok =>
                  StateRank(StateProcessMessage(s, MessageList[i]).state)
                      >= StateRank(s)]_vars

\* HereIAm came to a machine in WaitForActive, which stayed there
MonotoneProgressWitness ==
    /\ call.op = "process_message"
    /\ call.arg.variant = "HereIAm"
    /\ call.state = "WaitForActive"
    /\ state = "WaitForActive"

\* C18: whatever calls of start and process_message are made, the state is
\* Start or WaitForActive; and a machine in WaitForActive refuses every
\* message but Imok and stays there.
ReachableStates ==
    /\ state \in {"Start", "WaitForActive"}
    /\ (call.op = "process_message" /\ call.state = "WaitForActive"
            /\ call.arg.variant # "Imok") =>
           (call.ret # "Ok" /\ state = "WaitForActive")

\* YouAreNowActive was refused in WaitForActive
ReachableStatesWitness ==
    /\ call.op = "process_message"
    /\ call.arg.variant = "YouAreNowActive"
    /\ call.state = "WaitForActive"
    /\ call.ret = "Unexpected command"
    /\ state = "WaitForActive"

\* C20: a process_message that returns an error leaves the state, the role
\* and the uuid as they were and hands nothing to the transport; and a
\* YesItsMe in Start is taken whatever was refused before.
UnchangedOnError ==
    [][/\ (call'.op = "process_message" /\ call'.ret # "Ok") =>
              /\ state' = state
              /\ role' = role
              /\ uuid' = uuid
              /\ sent' = sent
       /\ (call'.op = "process_message" /\ call'.arg.variant = "YesItsMe"
               /\ state = "Start") =>
              (call'.ret = "Ok" /\ state' = "WaitForActive")]_vars

\* a message was refused in WaitForActive by a machine that had sent its
\* HereIAm, and both are as before
UnchangedOnErrorWitness ==
    /\ call.op = "process_message"
    /\ call.ret = "Unexpected command"
    /\ call.state = "WaitForActive"
    /\ state = "WaitForActive"
    /\ sent # <<>>
    /\ sent = call.sent

\* C21: whatever calls are made, every message handed to the transport is
\* HereIAm(1, uuid) with the machine's uuid, handed over by start() in the
\* Upstairs role; process_message hands over nothing, whether it returns Ok
\* or an error, and a Downstairs machine never hands over anything.
SentDiscipline ==
    [][/\ \A i \in 1..Len(sent') :
              sent'[i] = Msg("HereIAm", <<U32(1), uuid'>>)
       /\ role' = "Downstairs" => sent' = <<>>
       /\ call'.op = "process_message" => sent' = sent
       /\ call'.op = "start" =>
              \/ sent' = sent
              \/ /\ role = "Upstairs"
                 /\ sent' = Append(sent, Msg("HereIAm", <<U32(1), uuid>>))]_vars

\* an Upstairs machine has sent its HereIAm and then taken YesItsMe, and the
\* HereIAm is still all that was sent
SentDisciplineWitness ==
    /\ call.op = "process_message"
    /\ call.arg.variant = "YesItsMe"
    /\ call.ret = "Ok"
    /\ role = "Upstairs"
    /\ uuid = UuidA
    /\ sent = <<Msg("HereIAm", <<U32(1), UuidA>>)>>
    /\ sent = call.sent

---------------------------------------------------------------------------
(* More properties of the codec on one buffer (Spec) *)

\* the flush numbers, generation numbers and dirty flags of an ExtentVersions
\* are equally many
EqualLengths(m) ==
    /\ Len(m.fields[1]) = Len(m.fields[2])
    /\ Len(m.fields[2]) = Len(m.fields[3])

\* C16 as stated: the three sequences of every ExtentVersions that encode
\* takes or decode returns are equally long, and decoding what was encoded
\* gives the three sequences back, element by element.
ParallelArrays ==
    /\ (last.op = "encode" /\ last.arg.variant = "ExtentVersions") =>
           EqualLengths(last.arg)
    /\ (last.op = "decode" /\ last.res = "Message"
            /\ last.msg.variant = "ExtentVersions") =>
           EqualLengths(last.msg)
    /\ (DecodedWholeFrame /\ enc.variant = "ExtentVersions") =>
           (last.res = "Message" /\ MsgEq(last.msg, enc))

---------------------------------------------------------------------------
(* Properties of CreateRegion::mismatch (SpecMismatch) *)

\* C17: mismatch compares volume id, then block size, then block count: it
\* returns None exactly when all three are equal, else the description of
\* the first of them that differs; the ids, the port number and the state
\* of the region have no part in the answer.
MismatchOrder ==
    checked.op = "mismatch" =>
        /\ checked.ret = None <=>
               /\ checked.self.volume_id = checked.r.volume_id
               /\ checked.self.block_size = checked.r.block_size
               /\ checked.self.block_count = checked.r.block_count
        /\ checked.self.volume_id # checked.r.volume_id =>
               checked.ret = Some(Format("volume ID ",
                                         checked.self.volume_id,
                                         checked.r.volume_id))
        /\ (checked.self.volume_id = checked.r.volume_id
                /\ checked.self.block_size # checked.r.block_size) =>
               checked.ret = Some(Format("block size ",
                                         Decimal(checked.self.block_size),
                                         Decimal(checked.r.block_size)))
        /\ (checked.self.volume_id = checked.r.volume_id
                /\ checked.self.block_size = checked.r.block_size
                /\ checked.self.block_count # checked.r.block_count) =>
               checked.ret = Some(Format("block count ",
                                         Decimal(checked.self.block_count),
                                         Decimal(checked.r.block_count)))
        /\ \A i \in RegionIds, j \in RegionIds, p \in PortNumbers,
              s \in RegionStates :
               checked.ret =
                   mismatch([checked.self EXCEPT !.id = i],
                            [checked.r EXCEPT !.id = j, !.port_number = p,
                                              !.state = s])

\* the volume id and the block size both differed, and the answer was about
\* the volume id
MismatchOrderWitness ==
    /\ checked.op = "mismatch"
    /\ checked.self.volume_id # checked.r.volume_id
    /\ checked.self.block_size # checked.r.block_size
    /\ checked.ret.some
    /\ checked.ret.val[1] = "volume ID "

\* C19 as stated, for the bytes of a peer: decode returns no message from a
\* buffer whose length prefix is less than 4.
MinimumFrameLength ==
    (last.op = "decode" /\ last.res = "Message" /\ enc.variant = "") =>
        BigLe(<<0, 4>>, FrameLen(last.pre))

====
